---- MODULE Spec2Model ----
(***************************************************************************)
(* RippleReach: the outreach state machine (app.py), the delivery engine   *)
(* (resend_integration.py) and the reply monitor (email_monitor.py) over   *)
(* the spreadsheet record store (google_sheets.py).                        *)
(*                                                                         *)
(* Four specifications share the variables:                                *)
(*   SpecSend     one caller at a time of send_round_robin_email           *)
(*   SpecConc     several threads inside send_round_robin_email at once    *)
(*   SpecPass     Orchestrator passes (send_emails) over the lead sheet    *)
(*   SpecMonitor  Reply Monitor cycles (check_replies) over the mailboxes  *)
(*                and the lead sheet                                       *)
(*                                                                         *)
(* Text is modelled as a sequence of one-character strings, so that        *)
(* strip() and len() are computed as the code computes them.               *)
(***************************************************************************)
EXTENDS Integers, Sequences, FiniteSets, TLC

VARIABLES
    sender_configs,   \* Config.SENDER_CONFIGS: the Sender Pool, a sequence of identities
    current_index,    \* EmailSender._current_index, the class-level rotation cursor
    call,             \* per thread: the frame of its send_round_robin_email call
    result,           \* per thread: what its last call returned (or that it raised)
    picks,            \* the pool positions get_next_sender_config returned, in order
    sheet,            \* the "Leads" worksheet from row Config.STARTING_ROW on
    pass,             \* the frame of send_emails: leads read, loop position, results
    mailboxes,        \* per identity of the pool: the messages of its INBOX, oldest first
    mon,              \* the frame of check_replies / _check_single_inbox
    clock,            \* datetime.now() and the request ids handed out so far
    conv              \* one call of _convert_html_to_text: its input and what it returned

sendVars == <<sender_configs, current_index, call, result, picks, clock>>
monVars == <<mailboxes, mon, conv>>

vars ==
    <<sender_configs, current_index, call, result, picks, sheet, pass, mailboxes, mon, clock,
      conv>>

------------------------------------------------------------------------------
(* Bounds of the model *)

MaxPool == 3        \* largest Sender Pool drawn in Init
MaxCalls == 4       \* identity selections made in one behaviour
NumThreads == 2     \* threads of SpecConc
MaxLeads == 2       \* rows of the lead sheet
MaxMail == 2        \* messages in the first mailbox
MaxCycles == 2      \* check_replies cycles in one behaviour
MaxFaults == 1      \* connection and record-store failures in one behaviour
MaxClock == 2       \* the last instant of the clock, in ticks
TicksPerSecond == 2 \* instants the clock tells apart within one second
MaxHref == 2        \* pieces of the href of an anchor

(* Program constants *)

MinSubjectLen == 2
MinBodyLen == 10

------------------------------------------------------------------------------
(* Text helpers: Python's str.strip, `in`, truthiness *)

RECURSIVE LStrip(_, _)
LStrip(s, cs) ==
    IF s # <<>> /\ Head(s) \in cs THEN LStrip(Tail(s), cs) ELSE s

RECURSIVE RStrip(_, _)
RStrip(s, cs) ==
    IF s # <<>> /\ s[Len(s)] \in cs THEN RStrip(SubSeq(s, 1, Len(s) - 1), cs) ELSE s

StripChars(s, cs) == RStrip(LStrip(s, cs), cs)

Whitespace == {" "}
QuoteChars == {"\"", "'"}

\* str.strip()
Strip(s) == StripChars(s, Whitespace)

\* c in s
Contains(s, c) == \E i \in 1..Len(s) : s[i] = c

\* n copies of the character c
Rep(c, n) == [i \in 1..n |-> c]

------------------------------------------------------------------------------
(* Delivery Engine: resend_integration.py *)

Threads == 1..NumThreads

\* One identity of the pool; a field that is missing or empty is "".
Identity(i, ok) ==
    [email |-> <<"s", "@", "k">> \o <<ToString(i)>>,
     api_key |-> IF ok THEN <<"k">> \o <<ToString(i)>> ELSE <<>>,
     display_name |-> <<"S">> \o <<ToString(i)>>]

Pools ==
    UNION {[1..k -> BOOLEAN] : k \in 0..MaxPool}

PoolOf(flags) == [i \in DOMAIN flags |-> Identity(i, flags[i])]

\* EmailSender.validate_sender_config
validate_sender_config(config) ==
    /\ config.email # <<>>
    /\ config.api_key # <<>>
    /\ config.display_name # <<>>

\* validate_email_content: the exception it raises, "None" when it returns
validate_email_content_NoSubjectCheck(to_email, subject, html_content) ==
    IF to_email = <<>> \/ ~Contains(to_email, "@") THEN "ValueError"
    ELSE IF html_content = <<>> \/ Len(Strip(html_content)) < MinBodyLen THEN "ValueError"
    ELSE "None"

validate_email_content(to_email, subject, html_content) ==
    IF to_email = <<>> \/ ~Contains(to_email, "@") THEN "ValueError"
    ELSE IF subject = <<>> \/ Len(Strip(subject)) < MinSubjectLen THEN "ValueError"
    ELSE IF html_content = <<>> \/ Len(Strip(html_content)) < MinBodyLen THEN "ValueError"
    ELSE "None"

\* line 75: subject.strip().strip('"\'').strip()
CleanSubject(subject) == Strip(StripChars(Strip(subject), QuoteChars))

\* line 46: the cursor's next value
NextIndexNoAdvance(i, n) == i

NextIndex(i, n) == (i + 1) % n

\* line 143: which exceptions `except Exception` catches
CatchesOnlyDeliveryError(e) == e = "EmailDeliveryError"

\* every exception the call can meet derives from Exception
ExceptionTypes == {"ValueError", "EmailDeliveryError", "Timeout", "IndexError"}

Catches(e) == e \in ExceptionTypes

\* what the provider can answer to one POST (requests.post raising on a
\* timeout or connection error included)
ProviderOutcomes == {"timeout", "non2xx", "ok_no_id", "ok_id"}

ToEmails == {<<>>, <<"n", "o">>, <<"a", "@", "b">>}
Subjects ==
    {<<>>, <<"x">>, <<" ", "x", " ">>, <<"o", "k">>, <<" ", "o", "k">>,
     <<"'", "x", "'">>, <<"\"", "o", "k", "\"">>}
Bodies == {<<>>, Rep("x", 9), <<" ">> \o Rep("x", 9) \o <<" ">>, Rep("x", 10)}

NoCall ==
    [pc |-> "idle", to_email |-> <<>>, subject |-> <<>>, html_content |-> <<>>,
     config |-> 0, loaded |-> 0, clean_subject |-> "unset", from_email |-> "unknown",
     exc |-> "None", response |-> "none", posts |-> 0, request_id |-> "unset"]

\* line 63: start_time.strftime('%Y%m%d_%H%M%S') keeps the whole seconds of
\* the instant and drops the rest
strftime(instant) == instant \div TicksPerSecond

\* the clock at the start: no request id handed out yet. `issued` holds the
\* request ids given to calls, `reissued` those given to a second call.
NoClock == [now |-> 0, issued |-> {}, reissued |-> {}]

\* time passes
Tick ==
    /\ clock.now < MaxClock
    /\ clock' = [clock EXCEPT !.now = @ + 1]
    /\ UNCHANGED <<sender_configs, current_index, call, result, picks>>
    /\ UNCHANGED <<sheet, pass, mailboxes, mon, conv>>

NoResult == [status |-> "none"]

\* line 60-66: entry; the frame is fresh
Enter(t, to, subj, html) ==
    /\ call[t].pc = "idle"
    /\ Len(picks) < MaxCalls
    /\ LET request_id == strftime(clock.now)
       IN /\ call' = [call EXCEPT ![t] =
                        [NoCall EXCEPT !.pc = "validate", !.to_email = to,
                                       !.subject = subj, !.html_content = html,
                                       !.request_id = request_id]]
          /\ clock' = IF request_id \in clock.issued
                      THEN [clock EXCEPT !.reissued = @ \cup {request_id}]
                      ELSE [clock EXCEPT !.issued = @ \cup {request_id}]
    /\ result' = [result EXCEPT ![t] = NoResult]
    /\ UNCHANGED <<sender_configs, current_index, picks>>
    /\ UNCHANGED <<sheet, pass, mailboxes, mon, conv>>

\* lines 69-72 inside the try of line 65: an exception of the validation
\* goes to the handler of line 143, else the identity is selected next
AfterValidateSelect(e) == "select"

AfterValidate(e) == IF e = "None" THEN "select" ELSE "except"

\* line 69: validate_email_content(to_email, subject, html_content)
Validate(t) ==
    /\ call[t].pc = "validate"
    /\ LET e == validate_email_content(call[t].to_email, call[t].subject,
                                       call[t].html_content)
       IN call' = [call EXCEPT ![t].exc = e, ![t].pc = AfterValidate(e)]
    /\ UNCHANGED <<sender_configs, current_index, result, picks>>
    /\ UNCHANGED <<sheet, pass, mailboxes, mon, clock, conv>>

\* lines 38-40: the raise for an invalid identity comes before the
\* assignment of line 46, the cursor keeps its value
AfterInvalidIdentitySkip(i, n) == (i + 1) % n

AfterInvalidIdentity(i, n) == i

\* get_next_sender_config, lines 32-43: read the cursor, fetch and validate
\* the identity at it
Select(t) ==
    /\ call[t].pc = "select"
    /\ IF Len(sender_configs) = 0
       THEN /\ call' = [call EXCEPT ![t].exc = "ValueError", ![t].pc = "except"]
            /\ UNCHANGED current_index
       ELSE IF current_index + 1 > Len(sender_configs)
       THEN /\ call' = [call EXCEPT ![t].exc = "IndexError", ![t].pc = "except"]
            /\ UNCHANGED current_index
       ELSE IF ~validate_sender_config(sender_configs[current_index + 1])
       THEN /\ call' = [call EXCEPT ![t].exc = "ValueError", ![t].pc = "except"]
            /\ current_index' = AfterInvalidIdentity(current_index, Len(sender_configs))
       ELSE /\ call' = [call EXCEPT ![t].config = current_index + 1, ![t].pc = "load"]
            /\ UNCHANGED current_index
    /\ UNCHANGED <<sender_configs, result, picks>>
    /\ UNCHANGED <<sheet, pass, mailboxes, mon, clock, conv>>

\* line 46, right-hand side: cls._current_index is read again
Load(t) ==
    /\ call[t].pc = "load"
    /\ call' = [call EXCEPT ![t].loaded = current_index, ![t].pc = "store"]
    /\ UNCHANGED <<sender_configs, current_index, result, picks>>
    /\ UNCHANGED <<sheet, pass, mailboxes, mon, clock, conv>>

\* line 46, the assignment; line 47 returns the identity read at line 35;
\* lines 75-78 clean the subject and build the From header
Store(t) ==
    /\ call[t].pc = "store"
    /\ current_index' = NextIndex(call[t].loaded, Len(sender_configs))
    /\ picks' = Append(picks, call[t].config)
    /\ call' = [call EXCEPT ![t].clean_subject = CleanSubject(call[t].subject),
                            ![t].from_email = call[t].config,
                            ![t].pc = "post"]
    /\ UNCHANGED <<sender_configs, result>>
    /\ UNCHANGED <<sheet, pass, mailboxes, mon, clock, conv>>

\* where the call goes after requests.post: a timeout or connection error
\* propagates to the handler of line 143, an answer is parsed at line 107
AfterPostRetry(r) == IF r = "timeout" THEN "post" ELSE "respond"

AfterPost(r) == IF r = "timeout" THEN "except" ELSE "respond"

\* lines 97-105: the one requests.post of the call
Post(t) ==
    /\ call[t].pc = "post"
    /\ \E r \in ProviderOutcomes :
         call' = [call EXCEPT ![t].posts = @ + 1, ![t].response = r,
                              ![t].exc = IF r = "timeout" THEN "Timeout" ELSE "None",
                              ![t].pc = AfterPost(r)]
    /\ UNCHANGED <<sender_configs, current_index, result, picks>>
    /\ UNCHANGED <<sheet, pass, mailboxes, mon, clock, conv>>

\* lines 107-141: non-2xx and a missing id raise EmailDeliveryError, else the
\* success response is returned
Respond(t) ==
    /\ call[t].pc = "respond"
    /\ IF call[t].response = "ok_id"
       THEN /\ result' = [result EXCEPT ![t] =
                            [status |-> "success", email_id |-> "id",
                             from |-> call[t].from_email, to |-> call[t].to_email,
                             subject |-> call[t].clean_subject]]
            /\ call' = [call EXCEPT ![t].pc = "idle"]
       ELSE /\ call' = [call EXCEPT ![t].exc = "EmailDeliveryError", ![t].pc = "except"]
            /\ UNCHANGED result
    /\ UNCHANGED <<sender_configs, current_index, picks>>
    /\ UNCHANGED <<sheet, pass, mailboxes, mon, clock, conv>>

\* lines 143-158: the handler builds the failure result; an exception the
\* clause does not catch leaves the function
Except(t) ==
    /\ call[t].pc = "except"
    /\ result' = [result EXCEPT ![t] =
                    IF Catches(call[t].exc)
                    THEN [status |-> "failed", error |-> call[t].exc,
                          error_type |-> call[t].exc,
                          from |-> call[t].from_email, to |-> call[t].to_email,
                          subject |-> IF call[t].clean_subject = "unset"
                                      THEN call[t].subject
                                      ELSE call[t].clean_subject]
                    ELSE [status |-> "raised", error |-> call[t].exc]]
    /\ call' = [call EXCEPT ![t].pc = "idle"]
    /\ UNCHANGED <<sender_configs, current_index, picks>>
    /\ UNCHANGED <<sheet, pass, mailboxes, mon, clock, conv>>


------------------------------------------------------------------------------
(* Record store and Orchestrator: google_sheets.py, app.py *)

\* A row of the sheet. A cell is a string; get_lead_data reads an empty cell
\* as None (google_sheets.py line 203), written "" here. The conversation
\* history cell is kept as the sequence of its entries. Position p of `sheet`
\* is sheet row Config.STARTING_ROW + p - 1, the `index` of the loops.
LeadEmails == <<"alice@x.co", "bob@y.co", "carol@z.co", "dave@w.co">>

Statuses == {"", "New", "Sent", "Replied", "Active", "Failed"}

Row(p, status, last_message) ==
    [Email |-> LeadEmails[p], EmailStatus |-> status, LastMessage |-> last_message,
     LastSender |-> "", ConversationHistory |-> <<>>, ColdEmailSubject |-> "",
     SenderEmail |-> "", CompanyBackground |-> ""]

Sheets ==
    UNION {[1..n -> Statuses \X {"", "Tell me about pricing"}] : n \in 1..MaxLeads}

SheetOf(cells) == [p \in DOMAIN cells |-> Row(p, cells[p][1], cells[p][2])]

NoPass == [pc |-> "idle", leads |-> <<>>, i |-> 0, results |-> <<>>, status |-> "none"]

\* should_process_lead: <<should_process, reason>>
should_process_lead(lead) ==
    IF lead.EmailStatus = "" \/ lead.EmailStatus = "New"
    THEN <<TRUE, "New lead needs cold email">>
    ELSE IF lead.EmailStatus = "Replied"
    THEN <<TRUE, "Need to respond to client reply">>
    ELSE IF lead.EmailStatus = "Sent" /\ lead.LastMessage = ""
    THEN <<FALSE, "Waiting for client response">>
    ELSE IF lead.EmailStatus = "Failed"
    THEN <<TRUE, "Retrying failed email">>
    ELSE <<FALSE, "No action needed">>

\* send_emails lines 78-89: the handler the if/elif chain calls
Handler(lead) ==
    IF lead.EmailStatus = "" \/ lead.EmailStatus = "New"
    THEN "process_new_lead"
    ELSE IF (lead.EmailStatus = "Sent" /\ lead.LastMessage # "")
            \/ lead.EmailStatus = "Replied"
    THEN "process_client_reply"
    ELSE IF lead.EmailStatus = "Failed"
    THEN "process_failed_email"
    ELSE "none"

\* app.py lines 150-160 and 207-217: PortfolioAssets.get_relevant_assets
\* (portfolio_assets.py lines 99-118) returns a list, and the handlers call
\* .get('case_studies', []) on it: the exception that call raises
PortfolioLookup == "AttributeError"

\* what a call of the content generator can do (generate_cold_email_content
\* for the body, generate_subject_line for the subject): raise, return the
\* empty string, return text
ContentOutcomes == {"raises", "empty", "text"}

\* line 140: generate_cold_email_content returns the pair (body, portfolio
\* data) (openai_integration.py line 205), and line 141 tests the pair: a
\* pair is true whatever its body
BodyMissing(content) == FALSE

\* line 146: the subject is a string, false when empty
SubjectMissing(subject) == subject = "empty"

\* process_new_lead lines 139-161: the exception the handler leaves with
NewLeadError(content, subject) ==
    IF content = "raises" THEN "ContentGenerationError"
    ELSE IF BodyMissing(content) THEN "Failed to generate email content"
    ELSE IF subject = "raises" THEN "ContentGenerationError"
    ELSE IF SubjectMissing(subject) THEN "Failed to generate subject line"
    ELSE PortfolioLookup

\* what the generator returned for a lead: <<body, subject>>; the subject is
\* not asked for when the body raised
Generated(content, subject) ==
    <<content, IF content = "raises" THEN "not called" ELSE subject>>

\* send_emails lines 104-110: after a lead's exception the loop goes on with
\* the next lead
AfterErrorAbort(i, n) == n + 1

AfterError(i, n) == i + 1

\* send_emails line 63: enumerate hands the loop the next lead
NextLeadSame(i) == i

NextLead(i) == i + 1

Entry(row, action, handler, detail) ==
    [row |-> row, action |-> action, handler |-> handler, detail |-> detail,
     generated |-> "none"]

\* send_emails lines 58-61: the leads are read once; get_lead_data raising
\* ends the pass in the outer handler (lines 117-122)
StartPass ==
    /\ pass.pc \in {"idle", "done"}
    /\ \E read_ok \in BOOLEAN :
         pass' = IF read_ok
                 THEN [pc |-> "loop", leads |-> sheet, i |-> 1, results |-> <<>>,
                       status |-> "running"]
                 ELSE [NoPass EXCEPT !.pc = "done", !.status = "error"]
    /\ UNCHANGED sheet
    /\ UNCHANGED sendVars
    /\ UNCHANGED monVars

\* lines 65-74: should_process_lead says no
SkipLead ==
    /\ pass.pc = "loop"
    /\ pass.i <= Len(pass.leads)
    /\ LET lead == pass.leads[pass.i]
           sp == should_process_lead(lead)
       IN /\ ~sp[1]
          /\ pass' = [pass EXCEPT !.i = NextLead(@),
                        !.results = Append(@, Entry(pass.i, "skipped", "none", sp[2]))]
    /\ UNCHANGED sheet
    /\ UNCHANGED sendVars
    /\ UNCHANGED monVars

\* process_new_lead lines 132-134 with update_sheet (google_sheets.py lines
\* 405-408): one cell of the row as it is in the sheet now is updated; the
\* lead read at the start of the pass is not written back
WriteBackgroundFromSnapshot(current, lead) ==
    [lead EXCEPT !.CompanyBackground = "description"]

WriteBackground(current, lead) == [current EXCEPT !.CompanyBackground = "description"]

\* lines 79-80 and process_new_lead: the company description is written to
\* the row (lines 130-137, a failed write is swallowed), the content is
\* generated, and the portfolio lookup of lines 150-160 raises before the
\* send of line 176; lines 104-110 record the error
NewLead ==
    /\ pass.pc = "loop"
    /\ pass.i <= Len(pass.leads)
    /\ LET lead == pass.leads[pass.i]
       IN /\ should_process_lead(lead)[1]
          /\ Handler(lead) = "process_new_lead"
          /\ \E written \in BOOLEAN, content \in ContentOutcomes, subject \in ContentOutcomes :
               /\ sheet' = IF written /\ pass.i \in DOMAIN sheet
                           THEN [sheet EXCEPT ![pass.i] = WriteBackground(@, lead)]
                           ELSE sheet
               /\ pass' = [pass EXCEPT
                             !.i = AfterError(pass.i, Len(pass.leads)),
                             !.results =
                                Append(@, [Entry(pass.i, "error", "process_new_lead",
                                                 NewLeadError(content, subject))
                                           EXCEPT !.generated = Generated(content, subject)])]
    /\ UNCHANGED sendVars
    /\ UNCHANGED monVars

\* lines 83-85 and process_client_reply: the portfolio lookup of lines
\* 207-217 raises before anything is generated, sent or written
ClientReply ==
    /\ pass.pc = "loop"
    /\ pass.i <= Len(pass.leads)
    /\ LET lead == pass.leads[pass.i]
       IN /\ should_process_lead(lead)[1]
          /\ Handler(lead) = "process_client_reply"
          /\ pass' = [pass EXCEPT
                        !.i = AfterError(pass.i, Len(pass.leads)),
                        !.results = Append(@, Entry(pass.i, "error", "process_client_reply",
                                                    PortfolioLookup))]
    /\ UNCHANGED sheet
    /\ UNCHANGED sendVars
    /\ UNCHANGED monVars

\* lines 88-102 and process_failed_email (lines 297-300): the handler is a
\* stub returning None, so the row is reported skipped
FailedEmail ==
    /\ pass.pc = "loop"
    /\ pass.i <= Len(pass.leads)
    /\ LET lead == pass.leads[pass.i]
       IN /\ should_process_lead(lead)[1]
          /\ Handler(lead) = "process_failed_email"
          /\ pass' = [pass EXCEPT
                        !.i = NextLead(@),
                        !.results = Append(@, Entry(pass.i, "skipped", "process_failed_email",
                                                    "No matching action found"))]
    /\ UNCHANGED sheet
    /\ UNCHANGED sendVars
    /\ UNCHANGED monVars

\* lines 112-115: the loop is over, the results are returned
EndPass ==
    /\ pass.pc = "loop"
    /\ pass.i > Len(pass.leads)
    /\ pass' = [pass EXCEPT !.pc = "done", !.status = "success"]
    /\ UNCHANGED sheet
    /\ UNCHANGED sendVars
    /\ UNCHANGED monVars

------------------------------------------------------------------------------
(* Reply Monitor: email_monitor.py *)

\* str.lower() on the addresses of the model
LowerAsWritten(a) == a

Lower(a) == IF a = "Alice@X.co" THEN "alice@x.co" ELSE a

\* One address of a From/To/Cc header as header.split(',') yields it:
\* "display <addr>" when display is not "", else pad followed by addr (the
\* blank after a comma stays in front of the second and later addresses).
Addr(display, pad, addr) == [display |-> display, pad |-> pad, addr |-> addr]

\* _parse_email_address
parse_email_address(h) == IF h.display # "" THEN h.addr ELSE h.pad \o h.addr

Agency == Addr("Agency", "", "s1@k.co")

Plain(t) == [multipart |-> FALSE, parts |-> <<[type |-> "text/plain", payload |-> t]>>]
Html(t) == [multipart |-> FALSE, parts |-> <<[type |-> "text/html", payload |-> t]>>]
Alternative(t, h) ==
    [multipart |-> TRUE, parts |-> <<[type |-> "text/plain", payload |-> t],
                                     [type |-> "text/html", payload |-> h]>>]

\* an HTML body sent together with an attachment: multipart, no text/plain part
HtmlWithAttachment(h) ==
    [multipart |-> TRUE, parts |-> <<[type |-> "text/html", payload |-> h],
                                     [type |-> "application/pdf", payload |-> "pdf"]>>]

Message(id, from, to, cc, references, date, body) ==
    [id |-> id, thread_index |-> "", from |-> from, to |-> to, cc |-> cc,
     references |-> references, in_reply_to |-> <<>>, date |-> date, body |-> body]

\* the agency's first touch, as copied to its own inbox
Outbound ==
    Message("<o1>", Agency, <<Addr("", "", "alice@x.co")>>, <<Agency>>, <<>>, 1,
            Plain("Hi Alice"))
\* the lead's reply to it
Reply1 ==
    Message("<r1>", Addr("Alice", "", "alice@x.co"), <<Agency>>, <<>>, <<"<o1>">>, 2,
            Plain("Tell me more"))
\* a second reply of the lead in the thread, HTML only, address in capitals
Reply2 ==
    Message("<r2>", Addr("", "", "Alice@X.co"), <<Agency>>, <<>>, <<"<o1>", "<r1>">>, 3,
            Html("<p>Send a proposal</p>"))
\* the agency's answer in the thread
FollowUp ==
    Message("<f1>", Agency, <<Addr("", "", "alice@x.co")>>, <<Agency>>,
            <<"<o1>", "<r1>">>, 4, Plain("Thanks Alice"))
\* another lead's reply, in another thread
BobReply ==
    Message("<b1>", Addr("", "", "bob@y.co"), <<Agency>>, <<>>, <<"<o2>">>, 2,
            Alternative("Not now", "<p>Not now</p>"))
\* mail of somebody who is no lead
Stranger ==
    Message("<x1>", Addr("", "", "eve@e.co"), <<Agency>>, <<>>, <<>>, 2, Plain("Offer"))

\* the lead's reply in another conversation with the agency, HTML with an
\* attachment
Reply3 ==
    Message("<r3>", Addr("Alice", "", "alice@x.co"), <<Agency>>, <<>>, <<"<o3>">>, 5,
            HtmlWithAttachment("<p>Call me</p>"))

\* the lead's reply with another lead in copy
CcReply ==
    Message("<c1>", Addr("Alice", "", "alice@x.co"), <<Agency>>,
            <<Addr("", "", "bob@y.co")>>, <<"<o1>">>, 6, Plain("Bob is in copy"))

\* the messages in the order they arrive
Arrival == <<Outbound, Reply1, BobReply, Stranger, Reply2, FollowUp, Reply3>>

\* the messages of Arrival at the positions of the set `chosen`, in order
RECURSIVE Pick(_, _)
Pick(chosen, from) ==
    IF from > Len(Arrival) THEN <<>>
    ELSE IF from \in chosen THEN <<Arrival[from]>> \o Pick(chosen, from + 1)
    ELSE Pick(chosen, from + 1)

\* the INBOX contents drawn in Init: up to MaxMail of the messages
FirstBoxContents ==
    {Pick(chosen, 1) : chosen \in {c \in SUBSET DOMAIN Arrival : Cardinality(c) <= MaxMail}}
\* the second identity's inbox: empty, or holding the reply it was copied on
SecondBoxContents == {<<>>, <<Reply1>>}

\* _get_email_body: the first text/plain part of a multipart message ("" when
\* there is none), the whole payload of a single-part message
get_email_body(m) ==
    IF m.body.multipart
    THEN LET plain == {k \in DOMAIN m.body.parts : m.body.parts[k].type = "text/plain"}
         IN IF plain = {} THEN ""
            ELSE m.body.parts[CHOOSE k \in plain : \A j \in plain : k <= j].payload
    ELSE m.body.parts[1].payload

\* _convert_html_to_text on the texts of the model: markup is rendered to
\* text, lines are stripped and empty lines dropped
convert_html_to_text(t) ==
    CASE t = "<p>Send a proposal</p>" -> "Send a proposal"
      [] t = "<p>Not now</p>" -> "Not now"
      [] t = "<p>Call me</p>" -> "Call me"
      [] OTHER -> t

\* An entry of the conversation history cell. "raw" is the text as written
\* (an entry begins with blank lines and spans several lines); "clean" is
\* what _convert_html_to_text leaves of it (lines 170-171 drop the empty
\* lines and strip every line).
HistoryEntry(kind, text) == [kind |-> kind, text |-> text, form |-> "raw"]

\* line 199: the existing history goes through _convert_html_to_text
CleanHistory(h) == [k \in DOMAIN h |-> [h[k] EXCEPT !.form = "clean"]]

\* line 190
NewStatusAlwaysReplied(current_status) == "Replied"

NewStatus(current_status) ==
    IF current_status = "Sent" THEN "Replied" ELSE current_status

\* lines 192-214: the update payload for the matched lead
UpdatePayloadAsNew(lead, reply_body) ==
    [LastMessage |-> reply_body,
     LastSender |-> "Client",
     EmailStatus |-> "New",
     ConversationHistory |-> lead.ConversationHistory]

UpdatePayload(lead, reply_body) ==
    [LastMessage |-> convert_html_to_text(reply_body),
     LastSender |-> "Client",
     EmailStatus |-> NewStatus(lead.EmailStatus),
     ConversationHistory |->
        CleanHistory(lead.ConversationHistory)
            \o <<HistoryEntry("Client Reply", convert_html_to_text(reply_body))>>]

\* the payload's keys in the order update_sheet writes their cells
PayloadOrder == <<"LastMessage", "LastSender", "EmailStatus", "ConversationHistory">>

\* update_sheet (google_sheets.py lines 406-413): the cells are written one
\* by one; `cells` of them are written before update_cell raises (all of them
\* when it does not). The cells of the other columns are not written.
update_sheet_ClearingRow(row, payload, cells) ==
    [f \in DOMAIN row |->
        IF \E k \in 1..cells : k <= Len(PayloadOrder) /\ PayloadOrder[k] = f
        THEN payload[f] ELSE ""]

update_sheet(row, payload, cells) ==
    [f \in DOMAIN row |->
        IF \E k \in 1..cells : k <= Len(PayloadOrder) /\ PayloadOrder[k] = f
        THEN payload[f] ELSE row[f]]

\* lines 183-187: the first row whose Email equals from_email, letter case
\* aside; a row with an empty Email cell met before it raises AttributeError
\* (None has no lower()). The return of line 225 ends the scan at that row.
FindLeadLast(sh, from_email) ==
    LET stop == {p \in DOMAIN sh :
                    sh[p].Email = "" \/ Lower(sh[p].Email) = Lower(from_email)}
    IN IF stop = {} THEN [kind |-> "none", row |-> 0]
       ELSE LET p == CHOOSE q \in stop : \A r \in stop : q >= r
            IN IF sh[p].Email = "" THEN [kind |-> "raise", row |-> p]
               ELSE [kind |-> "match", row |-> p]

FindLead(sh, from_email) ==
    LET stop == {p \in DOMAIN sh :
                    sh[p].Email = "" \/ Lower(sh[p].Email) = Lower(from_email)}
    IN IF stop = {} THEN [kind |-> "none", row |-> 0]
       ELSE LET p == CHOOSE q \in stop : \A r \in stop : q <= r
            IN IF sh[p].Email = "" THEN [kind |-> "raise", row |-> p]
               ELSE [kind |-> "match", row |-> p]

\* _get_thread_participants
get_thread_participants(m) ==
    {parse_email_address(m.from)}
        \cup {parse_email_address(m.to[k]) : k \in DOMAIN m.to}
        \cup {parse_email_address(m.cc[k]) : k \in DOMAIN m.cc}

\* s occurs in q as a run of consecutive elements
Within(s, q) ==
    \E i \in 0..(Len(q) - Len(s)) : \A k \in 1..Len(s) : q[i + k] = s[k]

\* lines 116-121, the IMAP search OR HEADER References r HEADER Message-ID i:
\* a HEADER key matches a message whose header contains the string, and the
\* empty string matches every message that has the header
InThread(m, ref) ==
    LET references == IF ref.references # <<>> THEN ref.references ELSE ref.in_reply_to
    IN \/ m.references # <<>> /\ Within(references, m.references)
       \/ m.id # "" /\ (ref.id = "" \/ m.id = ref.id)

\* line 128: list.sort by Date, stable
RECURSIVE SortByDate(_)
SortByDate(q) ==
    IF q = <<>> THEN <<>>
    ELSE LET first == CHOOSE i \in DOMAIN q :
                         /\ \A j \in DOMAIN q : q[i].date <= q[j].date
                         /\ \A j \in 1..(i - 1) : q[j].date # q[i].date
         IN <<q[first]>>
                \o SortByDate(SubSeq(q, 1, first - 1) \o SubSeq(q, first + 1, Len(q)))

RECURSIVE SelectThread(_, _)
SelectThread(box, ref) ==
    IF box = <<>> THEN <<>>
    ELSE IF InThread(Head(box), ref)
    THEN <<Head(box)>> \o SelectThread(Tail(box), ref)
    ELSE SelectThread(Tail(box), ref)

\* _get_thread_messages
get_thread_messages(box, ref) == SortByDate(SelectThread(box, ref))

NoUpdate == [kind |-> "none"]

NoCycle ==
    [pc |-> "idle", box |-> 0, pos |-> 0, processed_threads |-> {}, lead_emails |-> {},
     cycles |-> 0, faults |-> 0, last |-> NoUpdate, attempted |-> <<>>,
     updated_threads |-> {}]

\* the conversation a message belongs to: the first id of its References
\* chain, its own id when it starts the conversation
ThreadRoot(m) == IF m.references # <<>> THEN m.references[1] ELSE m.id

\* lines 60-89: the for loop takes the next message, whatever happened to
\* this one
AfterMessageStop(pos) == 0

AfterMessage(pos) == pos - 1

\* check_replies lines 28-32: after a mailbox that failed, the loop goes on
\* with the next configured mailbox
AfterInboxFailureAbort(b, n) == n + 1

AfterInboxFailure(b, n) == b + 1

\* one mailbox of the cycle and how _check_single_inbox ended for it
Attempt(b, outcome) == [box |-> b, outcome |-> outcome]

\* check_replies line 27: a cycle begins with the first mailbox
StartCycle ==
    /\ mon.pc = "idle"
    /\ mon.cycles < MaxCycles
    /\ mon' = [NoCycle EXCEPT !.pc = "open", !.box = 1, !.cycles = mon.cycles + 1,
                               !.faults = mon.faults]
    /\ UNCHANGED <<sheet, pass, mailboxes, conv>>
    /\ UNCHANGED sendVars

\* _check_single_inbox lines 35-58: connect and log in, read the leads, build
\* lead_emails, list the messages. A failure ends this mailbox (lines 95-97,
\* and line 31), an empty mailbox too (line 52).
OpenInbox ==
    /\ mon.pc = "open"
    /\ mon.box <= Len(mailboxes)
    /\ \E connected \in BOOLEAN :
         IF ~connected
         THEN /\ mon.faults < MaxFaults
              /\ mon' = [mon EXCEPT !.box = AfterInboxFailure(@, Len(mailboxes)),
                                    !.faults = @ + 1, !.last = NoUpdate,
                                    !.attempted = Append(@, Attempt(mon.box, "failed"))]
         ELSE IF \E p \in DOMAIN sheet : sheet[p].Email = ""
         THEN mon' = [mon EXCEPT !.box = AfterInboxFailure(@, Len(mailboxes)),
                                 !.last = NoUpdate,
                                 !.attempted = Append(@, Attempt(mon.box, "failed"))]
         ELSE IF mailboxes[mon.box] = <<>>
         THEN mon' = [mon EXCEPT !.box = @ + 1, !.last = NoUpdate,
                                 !.attempted = Append(@, Attempt(mon.box, "empty"))]
         ELSE mon' = [mon EXCEPT !.pc = "loop",
                        !.attempted = Append(@, Attempt(mon.box, "polled")),
                        !.pos = Len(mailboxes[mon.box]),
                        !.processed_threads = {},
                        !.updated_threads = {},
                        !.lead_emails = {Lower(sheet[p].Email) : p \in DOMAIN sheet},
                        !.last = NoUpdate]
    /\ UNCHANGED <<sheet, pass, mailboxes, conv>>
    /\ UNCHANGED sendVars

\* lines 60-89, one message of the loop (newest first), with
\* _update_lead_in_sheet (lines 178-227) when the thread's latest message is
\* the lead's. Any exception is caught at line 87 and the loop goes on.
ProcessMessage ==
    /\ mon.pc = "loop"
    /\ mon.pos >= 1
    /\ LET box == mailboxes[mon.box]
           email_message == box[mon.pos]
           participants == get_thread_participants(email_message)
           thread_id == IF email_message.id # "" THEN email_message.id
                        ELSE email_message.thread_index
           matching_leads == {e \in participants : Lower(e) \in mon.lead_emails}
           skip == [mon EXCEPT !.pos = AfterMessage(@), !.last = NoUpdate]
       IN \E fetched \in BOOLEAN :
            IF ~fetched
            THEN /\ mon.faults < MaxFaults
                 /\ mon' = [skip EXCEPT !.faults = @ + 1]
                 /\ UNCHANGED sheet
            ELSE IF matching_leads = {} \/ thread_id \in mon.processed_threads
            THEN /\ mon' = skip
                 /\ UNCHANGED sheet
            ELSE \E lead_email \in matching_leads :
                   LET thread_messages == get_thread_messages(box, email_message)
                       seen == [skip EXCEPT !.processed_threads = @ \cup {thread_id}]
                   IN IF thread_messages = <<>>
                      THEN /\ mon' = seen
                           /\ UNCHANGED sheet
                      ELSE LET latest_message == thread_messages[Len(thread_messages)]
                               latest_sender == parse_email_address(latest_message.from)
                               found == FindLead(sheet, lead_email)
                           IN IF Lower(latest_sender) # Lower(lead_email)
                                    \/ found.kind # "match"
                              THEN /\ mon' = seen
                                   /\ UNCHANGED sheet
                              ELSE \E cells \in 0..Len(PayloadOrder) :
                                     LET body == get_email_body(latest_message)
                                         lead == sheet[found.row]
                                         failed == IF cells < Len(PayloadOrder) THEN 1 ELSE 0
                                     IN /\ mon.faults + failed <= MaxFaults
                                        /\ sheet' = [sheet EXCEPT ![found.row] =
                                                       update_sheet(lead,
                                                           UpdatePayload(lead, body), cells)]
                                        /\ mon' = [seen EXCEPT
                                                     !.faults = @ + failed,
                                                     !.updated_threads =
                                                        @ \cup {ThreadRoot(email_message)},
                                                     !.last =
                                                       [kind |-> "update", row |-> found.row,
                                                        before |-> lead, body |-> body,
                                                        message |-> latest_message.id,
                                                        cells |-> cells]]
    /\ UNCHANGED <<pass, mailboxes, conv>>
    /\ UNCHANGED sendVars

\* lines 91-93: the loop is over, the mailbox is closed
CloseInbox ==
    /\ mon.pc = "loop"
    /\ mon.pos = 0
    /\ mon' = [mon EXCEPT !.pc = "open", !.box = @ + 1, !.last = NoUpdate]
    /\ UNCHANGED <<sheet, pass, mailboxes, conv>>
    /\ UNCHANGED sendVars

\* check_replies returns after the last mailbox
EndCycle ==
    /\ mon.pc = "open"
    /\ mon.box > Len(mailboxes)
    /\ mon' = [mon EXCEPT !.pc = "idle", !.last = NoUpdate]
    /\ UNCHANGED <<sheet, pass, mailboxes, conv>>
    /\ UNCHANGED sendVars

------------------------------------------------------------------------------
(* _convert_html_to_text on a paragraph with an anchor: email_monitor.py
   lines 154-176. Texts are sequences of pieces; a piece is a character or a
   run of characters none of which matters to the conversion. *)

NoConv == [pc |-> "none"]

\* the pieces an href is made of
UrlPieces == {"https://", "x.co", "#", "("}
Hrefs == UNION {[1..n -> UrlPieces] : n \in 1..MaxHref}

\* the text of the anchor: none, a word, or the href itself
Labels(href) == {<<>>, <<"here">>, href}

\* the text in front of the anchor
Befores == {<<>>, <<"See", " ">>}

\* <p>before<a href="href">label</a></p>
AnchorHtml(doc) ==
    <<"<p>">> \o doc.before \o <<"<a href=\"">> \o doc.href \o <<"\">">>
        \o doc.label \o <<"</a></p>">>

\* lines 161-164: the options the code sets, and those it leaves at the
\* value HTML2Text() gives them
ignore_links == FALSE
protect_links == TRUE
skip_internal_links == TRUE
use_automatic_links == TRUE

\* html2text escapes the characters that end a Markdown link where it
\* writes the link's URL
MdChars == {"\\", "[", "]", "(", ")"}

RECURSIVE escape_md(_)
escape_md(s) ==
    IF s = <<>> THEN <<>>
    ELSE (IF Head(s) \in MdChars THEN <<"\\", Head(s)>> ELSE <<Head(s)>>) \o escape_md(Tail(s))

\* a URL with a scheme
absolute_url(href) == href[1] = "https://"

\* line 167, h.handle on the paragraph: an anchor whose href begins with #
\* is an internal link and only its text is written; an anchor whose text
\* is its absolute href is written <href>; any other anchor is written
\* [text](<href>) with the URL escaped
handle(doc) ==
    IF ignore_links \/ (skip_internal_links /\ doc.href[1] = "#")
    THEN doc.before \o doc.label
    ELSE IF use_automatic_links /\ doc.label = doc.href /\ absolute_url(doc.href)
    THEN doc.before \o <<"<">> \o doc.href \o <<">">>
    ELSE doc.before \o <<"[">> \o doc.label \o <<"](">>
            \o escape_md(IF protect_links THEN <<"<">> \o doc.href \o <<">">> ELSE doc.href)
            \o <<")">>

\* lines 170-173: every line stripped, empty lines dropped (the paragraph
\* is one line)
html_to_text(doc) == Strip(handle(doc))

\* lines 156-173: the conversion returns the text
ConvertHtml ==
    /\ conv.pc = "input"
    /\ conv' = [conv EXCEPT !.pc = "returned", !.text = html_to_text(conv.doc)]
    /\ UNCHANGED <<sheet, pass, mailboxes, mon>>
    /\ UNCHANGED sendVars

\* lines 174-176: the parser or the converter raised, the input is returned
\* as it came
ConvertFails ==
    /\ conv.pc = "input"
    /\ conv' = [conv EXCEPT !.pc = "failed", !.text = AnchorHtml(conv.doc)]
    /\ UNCHANGED <<sheet, pass, mailboxes, mon>>
    /\ UNCHANGED sendVars

------------------------------------------------------------------------------
(* Specifications *)

InitSend ==
    /\ \E flags \in Pools : sender_configs = PoolOf(flags)
    /\ current_index = 0
    /\ call = [t \in Threads |-> NoCall]
    /\ result = [t \in Threads |-> NoResult]
    /\ picks = <<>>
    /\ sheet = <<>>
    /\ pass = NoPass
    /\ mailboxes = <<>>
    /\ mon = NoCycle
    /\ clock = NoClock
    /\ conv = NoConv

\* One thread, every input: the engine called again only after it returned.
NextSend ==
    \/ \E to \in ToEmails, subj \in Subjects, html \in Bodies : Enter(1, to, subj, html)
    \/ Validate(1)
    \/ Select(1)
    \/ Load(1)
    \/ Store(1)
    \/ Post(1)
    \/ Respond(1)
    \/ Except(1)
    \/ Tick

SpecSend == InitSend /\ [][NextSend]_vars

\* Several threads, valid content: the calls overlap freely.
NextConc ==
    \E t \in Threads :
        \/ Enter(t, <<"a", "@", "b">>, <<"o", "k">>, Rep("x", 10))
        \/ Validate(t)
        \/ Select(t)
        \/ Load(t)
        \/ Store(t)
        \/ Post(t)
        \/ Respond(t)
        \/ Except(t)

SpecConc == InitSend /\ [][NextConc]_vars

InitPass ==
    /\ sender_configs = <<>>
    /\ current_index = 0
    /\ call = [t \in Threads |-> NoCall]
    /\ result = [t \in Threads |-> NoResult]
    /\ picks = <<>>
    /\ \E cells \in Sheets : sheet = SheetOf(cells)
    /\ pass = NoPass
    /\ mailboxes = <<>>
    /\ mon = NoCycle
    /\ clock = NoClock
    /\ conv = NoConv

NextPass ==
    \/ StartPass
    \/ SkipLead
    \/ NewLead
    \/ ClientReply
    \/ FailedEmail
    \/ EndPass

SpecPass == InitPass /\ [][NextPass]_vars

\* The passes keep coming (the scheduler posts to /send_emails again and
\* again) and a pass that has begun goes on to its end.
SpecPassFair == SpecPass /\ WF_vars(NextPass)

\* The sheet the monitor works on: the first lead in any status, with the
\* first touch in its history once it was contacted; the second lead Sent.
MonitorRow(p, status) ==
    [Row(p, status, "") EXCEPT
        !.ConversationHistory =
            IF status \in {"", "New"} THEN <<>> ELSE <<HistoryEntry("Email Sent", "Hi")>>,
        !.LastSender = IF status \in {"", "New"} THEN "" ELSE "Agency"]

InitMonitor ==
    /\ sender_configs = PoolOf(<<TRUE, TRUE>>)
    /\ current_index = 0
    /\ call = [t \in Threads |-> NoCall]
    /\ result = [t \in Threads |-> NoResult]
    /\ picks = <<>>
    /\ \E status \in Statuses : sheet = <<MonitorRow(1, status), MonitorRow(2, "Sent")>>
    /\ pass = NoPass
    /\ \E first \in FirstBoxContents, second \in SecondBoxContents :
         mailboxes = <<first, second>>
    /\ mon = NoCycle
    /\ clock = NoClock
    /\ conv = NoConv

NextMonitor ==
    \/ StartCycle
    \/ OpenInbox
    \/ ProcessMessage
    \/ CloseInbox
    \/ EndCycle

SpecMonitor == InitMonitor /\ [][NextMonitor]_vars

\* The pass and the monitor cycle running side by side on one sheet (two
\* requests of the threaded server, or the route and the monitor script):
\* the first lead not yet contacted or failed, the second one contacted,
\* their replies in the first inbox, the second inbox empty.
InitBoth ==
    /\ sender_configs = PoolOf(<<TRUE, TRUE>>)
    /\ current_index = 0
    /\ call = [t \in Threads |-> NoCall]
    /\ result = [t \in Threads |-> NoResult]
    /\ picks = <<>>
    /\ \E status \in {"New", "Failed"} :
         sheet = <<MonitorRow(1, status), MonitorRow(2, "Sent")>>
    /\ pass = NoPass
    /\ \E first \in {<<Reply1>>, <<Reply1, BobReply>>} : mailboxes = <<first, <<>>>>
    /\ mon = NoCycle
    /\ clock = NoClock
    /\ conv = NoConv

NextBoth ==
    \/ StartPass
    \/ SkipLead
    \/ NewLead
    \/ ClientReply
    \/ FailedEmail
    \/ EndPass
    \/ StartCycle
    \/ OpenInbox
    \/ ProcessMessage
    \/ CloseInbox
    \/ EndCycle

SpecBoth == InitBoth /\ [][NextBoth]_vars

\* The monitor on lead lists that put the attribution to the test: two
\* leads, the same address in two rows, an address stored in capitals, a row
\* whose Email cell is empty; the first inbox holds a reply or two.
AttributionSheets ==
    {<<MonitorRow(1, "Sent"), MonitorRow(2, "Sent")>>,
     <<MonitorRow(1, "Sent"), [MonitorRow(2, "New") EXCEPT !.Email = "alice@x.co"]>>,
     <<[MonitorRow(1, "Sent") EXCEPT !.Email = "Alice@X.co"], MonitorRow(2, "Sent")>>,
     <<MonitorRow(1, "Sent"), [MonitorRow(2, "Sent") EXCEPT !.Email = ""]>>}

AttributionBoxes ==
    {<<Reply1>>, <<Reply2>>, <<CcReply>>, <<Reply1, BobReply>>, <<Stranger, Reply1>>}

InitAttribution ==
    /\ sender_configs = PoolOf(<<TRUE, TRUE>>)
    /\ current_index = 0
    /\ call = [t \in Threads |-> NoCall]
    /\ result = [t \in Threads |-> NoResult]
    /\ picks = <<>>
    /\ sheet \in AttributionSheets
    /\ pass = NoPass
    /\ \E first \in AttributionBoxes : mailboxes = <<first, <<>>>>
    /\ mon = NoCycle
    /\ clock = NoClock
    /\ conv = NoConv

SpecAttribution == InitAttribution /\ [][NextMonitor]_vars

\* One call of _convert_html_to_text on every paragraph of the model.
InitConvert ==
    /\ sender_configs = <<>>
    /\ current_index = 0
    /\ call = [t \in Threads |-> NoCall]
    /\ result = [t \in Threads |-> NoResult]
    /\ picks = <<>>
    /\ sheet = <<>>
    /\ pass = NoPass
    /\ mailboxes = <<>>
    /\ mon = NoCycle
    /\ clock = NoClock
    /\ \E href \in Hrefs, before \in Befores :
         \E label \in Labels(href) :
            conv = [pc |-> "input", text |-> <<>>,
                    doc |-> [before |-> before, href |-> href, label |-> label]]

NextConvert ==
    \/ ConvertHtml
    \/ ConvertFails

SpecConvert == InitConvert /\ [][NextConvert]_vars

------------------------------------------------------------------------------
(* Delivery Engine claims *)

AllValid == \A i \in DOMAIN sender_configs : validate_sender_config(sender_configs[i])
PoolSize == Len(sender_configs)
Returned(t) == call[t].pc = "idle" /\ result[t].status # "none"
PickCount(k) == Cardinality({i \in DOMAIN picks : picks[i] = k})

\* the three preconditions of section 4.2, stated on the call's arguments
Preconditions(c) ==
    /\ Contains(c.to_email, "@")
    /\ Len(Strip(c.subject)) >= 2
    /\ Len(Strip(c.html_content)) >= 10

\* C4: send_round_robin_email posts to the provider only when the recipient
\* contains "@", the stripped subject has at least 2 characters and the
\* stripped body at least 10; a call whose arguments break a precondition
\* returns a failure result and has posted nothing.
C4_NoRequestUnlessValid ==
    \A t \in Threads :
        /\ call[t].posts > 0 => Preconditions(call[t])
        /\ call[t].pc \in {"select", "load", "store", "post", "respond"}
              => Preconditions(call[t])
        /\ (Returned(t) /\ ~Preconditions(call[t]))
              => (result[t].status = "failed" /\ call[t].posts = 0)

\* a call with a good recipient and body and a one-character subject has
\* returned its failure without posting
C4_Witness ==
    /\ Returned(1)
    /\ Contains(call[1].to_email, "@")
    /\ Len(Strip(call[1].html_content)) >= 10
    /\ call[1].subject # <<>>
    /\ Len(Strip(call[1].subject)) < 2
    /\ result[1].status = "failed"
    /\ call[1].posts = 0

\* C5: with K valid identities and one caller at a time, the i-th selection
\* returns pool position (i - 1) mod K (the cursor starts at 0), every
\* identity is selected floor(N/K) or ceil(N/K) times in N selections, and
\* the cursor stays within 0..K-1.
C5_RoundRobin ==
    (AllValid /\ PoolSize > 0) =>
        /\ current_index \in 0..(PoolSize - 1)
        /\ \A i \in DOMAIN picks : picks[i] = ((i - 1) % PoolSize) + 1
        /\ \A k \in 1..PoolSize :
              PickCount(k) \in {Len(picks) \div PoolSize,
                                (Len(picks) + PoolSize - 1) \div PoolSize}

\* the rotation has wrapped around a pool of at least two identities
C5_Witness ==
    /\ AllValid
    /\ PoolSize >= 2
    /\ Len(picks) > PoolSize
    /\ picks[Len(picks)] = 1

\* C6: concurrent calls of get_next_sender_config behave as sequential ones:
\* once all calls have returned, the identities handed out are those of the
\* same number of sequential calls, and no two calls got the same position
\* of one rotation round.
C6_AtomicCursor ==
    (AllValid /\ PoolSize > 0 /\ \A t \in Threads : call[t].pc = "idle") =>
        \A k \in 1..PoolSize :
            PickCount(k) =
                Cardinality({i \in 1..Len(picks) : ((i - 1) % PoolSize) + 1 = k})

\* C8: send_round_robin_email never raises: whatever validation, identity
\* selection and the provider do, the call returns success (with the identity
\* used and the provider's message id) or failed (with the error and the
\* recipient and subject attempted).
C8_NeverRaises ==
    \A t \in Threads :
        /\ result[t].status \in {"none", "success", "failed"}
        /\ result[t].status = "success" =>
              /\ result[t].from \in DOMAIN sender_configs
              /\ result[t].email_id = "id"
              /\ call[t].response = "ok_id"
        /\ result[t].status = "failed" =>
              /\ result[t].error \in ExceptionTypes
              /\ result[t].to = call[t].to_email
              /\ result[t].subject \in {call[t].subject, CleanSubject(call[t].subject)}
              /\ call[t].response # "ok_id"

\* the provider timed out and the call returned the failure
C8_Witness ==
    /\ Returned(1)
    /\ result[1].status = "failed"
    /\ result[1].error = "Timeout"
    /\ call[1].posts = 1

\* C16: one call of send_round_robin_email posts to the provider at most
\* once, whatever the provider does (timeout, non-2xx answer, answer without
\* an id): the engine does not retry.
C16_OneAttempt ==
    \A t \in Threads : call[t].posts <= 1

\* the provider rejected the one request of a call, and the call returned
C16_Witness ==
    /\ Returned(1)
    /\ result[1].status = "failed"
    /\ call[1].response = "non2xx"
    /\ result[1].error = "EmailDeliveryError"
    /\ call[1].posts = 1

\* C18: no request goes to the provider while the pool is empty or any of
\* its identities, at the cursor or not, lacks an address, a credential or a
\* display name.
C18_FailFastOnAnyIdentity ==
    \A t \in Threads : call[t].posts > 0 => (PoolSize > 0 /\ AllValid)

\* the class of section 4.2 a failed call belongs to, from where it failed:
\* at validate_email_content, at get_next_sender_config, at requests.post,
\* or at the provider's answer
FailureClass(c) ==
    IF validate_email_content(c.to_email, c.subject, c.html_content) # "None"
    THEN "validation"
    ELSE IF c.posts = 0 THEN "configuration"
    ELSE IF c.response = "timeout" THEN "transport"
    ELSE "provider-rejected"

\* the error types a validation failure carries
ValidationErrorTypes ==
    {validate_email_content(to, subj, html) :
        to \in ToEmails, subj \in Subjects, html \in Bodies} \ {"None"}

\* C19: the error type of a failure result tells its class; in particular
\* a configuration failure never carries an error type that a validation
\* failure carries.
C19_ErrorTypeTellsClass ==
    \A t \in Threads :
        (Returned(t) /\ result[t].status = "failed"
            /\ FailureClass(call[t]) = "configuration")
        => result[t].error_type \notin ValidationErrorTypes

\* C20: the request ids of any two calls of send_round_robin_email differ,
\* also of two calls that start within the same second: no request id is
\* handed out twice.
C20_UniqueRequestId ==
    clock.reissued = {}

\* the identity at the cursor lacks a field
InvalidAtCursor ==
    /\ current_index < PoolSize
    /\ ~validate_sender_config(sender_configs[current_index + 1])

\* C36: no step of a call whose content fails validation changes the
\* rotation cursor or hands out an identity.
C36_RejectedKeepsCursor ==
    [][\A t \in Threads :
          (/\ call[t].pc # "idle"
           /\ validate_email_content(call[t].to_email, call[t].subject,
                                     call[t].html_content) # "None")
          => (current_index' = current_index /\ picks' = picks /\ call'[t].config = 0)]_vars

\* a call with invalid content has returned its failure with the cursor
\* where an earlier selection left it
C36_Witness ==
    /\ Returned(1)
    /\ validate_email_content(call[1].to_email, call[1].subject,
                              call[1].html_content) # "None"
    /\ result[1].status = "failed"
    /\ Len(picks) = 1
    /\ current_index = 1

\* C37: while the identity at the cursor is invalid, a selection raises
\* ValueError, and no step moves the cursor or hands out an identity: every
\* later send meets the same identity.
C37_InvalidIdentityBlocks ==
    [][InvalidAtCursor =>
          /\ current_index' = current_index
          /\ picks' = picks
          /\ \A t \in Threads :
                (call[t].pc = "select" /\ call'[t].pc # "select")
                   => (call'[t].pc = "except" /\ call'[t].exc = "ValueError")]_vars

\* a call made after the selection that moved the cursor to an invalid
\* identity has failed on that identity
C37_Witness ==
    /\ InvalidAtCursor
    /\ Len(picks) = 1
    /\ Returned(1)
    /\ result[1].status = "failed"
    /\ call[1].exc = "ValueError"
    /\ Preconditions(call[1])
    /\ clock.reissued # {}

\* C38: the subject of every request posted to the provider, stripped, has
\* at least 2 characters.
C38_PostedSubjectValid ==
    \A t \in Threads :
        call[t].posts > 0 => Len(Strip(call[t].clean_subject)) >= MinSubjectLen

------------------------------------------------------------------------------
(* Orchestrator claims *)

\* the action of section 4.1 a pass result stands for: the handler that ran
Decision(entry) ==
    CASE entry.handler = "process_new_lead" -> "SendFirstTouch"
      [] entry.handler = "process_client_reply" -> "SendReply"
      [] entry.handler = "process_failed_email" -> "RetrySend"
      [] OTHER -> "None"

\* the decision table of section 4.1
TableAction(status, last_message) ==
    CASE status \in {"", "New"} -> "SendFirstTouch"
      [] status = "Replied" -> "SendReply"
      [] status = "Sent" /\ last_message # "" -> "SendReply"
      [] status = "Sent" /\ last_message = "" -> "None"
      [] status = "Failed" -> "RetrySend"
      [] OTHER -> "None"

LeadOf(entry) == pass.leads[entry.row]

\* the content generator was called for the lead of a result entry and
\* raised or returned an empty body or subject
ContentFailed(entry) ==
    entry.generated # "none" /\ entry.generated # <<"text", "text">>

\* C1: for every lead a pass has handled, the decision taken (skipped by
\* should_process_lead, or the handler send_emails called) is the action the
\* table of section 4.1 gives for the lead's status and last_message presence.
C1_DecisionTable ==
    \A k \in DOMAIN pass.results :
        Decision(pass.results[k]) =
            TableAction(LeadOf(pass.results[k]).EmailStatus,
                        LeadOf(pass.results[k]).LastMessage)

\* C3: a pass that has handled a lead with status New or empty, the content
\* generator and the Delivery Engine not failing for it, leaves the row with
\* status Sent, a subject line, last_sender Agency, the identity used and an
\* "Email Sent" entry in the conversation history.
C3_FirstTouchRecorded ==
    \A k \in DOMAIN pass.results :
        (/\ pass.results[k].handler = "process_new_lead"
         /\ ~ContentFailed(pass.results[k]))
        => LET row == sheet[pass.results[k].row]
           IN /\ row.EmailStatus = "Sent"
              /\ row.ColdEmailSubject # ""
              /\ row.LastSender = "Agency"
              /\ row.SenderEmail # ""
              /\ \E e \in DOMAIN row.ConversationHistory :
                    row.ConversationHistory[e].kind = "Email Sent"

\* C7: a lead's failure does not abort the pass: once the leads are read,
\* every lead handled so far has exactly one result entry (skipped, processed
\* or error) carrying its row, in lead order, the finished pass has one entry
\* per lead, and what was decided for a lead depends on that lead alone.
C7_FailureIsolated ==
    (pass.status \in {"running", "success"}) =>
        /\ Len(pass.results) = pass.i - 1
        /\ pass.pc = "done" => Len(pass.results) = Len(pass.leads)
        /\ \A k \in DOMAIN pass.results :
              /\ pass.results[k].row = k
              /\ pass.results[k].action \in {"skipped", "processed", "error"}
              /\ pass.results[k].handler =
                    IF should_process_lead(pass.leads[k])[1]
                    THEN Handler(pass.leads[k]) ELSE "none"

\* a finished pass whose first lead failed and whose second lead was handled
C7_Witness ==
    /\ pass.pc = "done"
    /\ Len(pass.results) >= 2
    /\ pass.results[1].action = "error"
    /\ pass.results[2].action = "skipped"
    /\ pass.results[2].row = 2

\* C10: a lead with status Sent and a non-empty last_message is handled by
\* the reply handler process_client_reply, not skipped.
C10_SentWithMessageReplied ==
    \A k \in DOMAIN pass.results :
        (LeadOf(pass.results[k]).EmailStatus = "Sent"
            /\ LeadOf(pass.results[k]).LastMessage # "")
        => (pass.results[k].handler = "process_client_reply"
            /\ pass.results[k].action # "skipped")

\* send_round_robin_email has been entered: a request id was handed out
EngineCalled == clock.issued # {}

\* the number of entries of send_round_robin_email so far, as far as the
\* request ids tell
EngineEntries == Cardinality(clock.issued) + Cardinality(clock.reissued)

\* C11: once a pass has handled a lead whose decision is SendFirstTouch,
\* SendReply or RetrySend and whose content generation did not fail, the
\* Delivery Engine has been called; a lead with status Failed in particular
\* has had its send retried.
C11_EngineCalledForDecision ==
    \A k \in DOMAIN pass.results :
        (Decision(pass.results[k]) # "None" /\ ~ContentFailed(pass.results[k]))
        => EngineCalled

C14_OneDispatchPerLead ==
    /\ \A j, k \in DOMAIN pass.results :
          pass.results[j].row = pass.results[k].row => j = k
    /\ \A k \in DOMAIN pass.results :
          pass.results[k].handler \in
              {"none", "process_new_lead", "process_client_reply", "process_failed_email"}
    /\ EngineEntries <=
          Cardinality({k \in DOMAIN pass.results : pass.results[k].handler # "none"})

\* a finished pass in which one lead went to the first-touch handler and
\* another to the reply handler
C14_Witness ==
    /\ pass.pc = "done"
    /\ \E j, k \in DOMAIN pass.results :
          /\ pass.results[j].handler = "process_new_lead"
          /\ pass.results[k].handler = "process_client_reply"
          /\ pass.results[j].row # pass.results[k].row

\* C17: a configuration error of the Sender Pool is fatal to the pass: a
\* pass that ran with an empty pool or an incomplete identity and had a lead
\* to dispatch reports the error instead of success.
C17_ConfigurationErrorFatal ==
    (/\ pass.pc = "done"
     /\ PoolSize = 0 \/ ~AllValid
     /\ \E k \in DOMAIN pass.results : pass.results[k].handler # "none")
    => pass.status = "error"

\* the errors by which process_new_lead reports that generation gave nothing
ContentFailureErrors ==
    {"Failed to generate email content", "Failed to generate subject line"}

\* C21: when the content generator returned an empty body or an empty
\* subject for a lead, the pass reports a content-generation failure for that
\* lead, no message is dispatched and the lead's status is as it was read.
C21_EmptyContentSurfaced ==
    \A k \in DOMAIN pass.results :
        (pass.results[k].generated # "none"
            /\ \E f \in 1..2 : pass.results[k].generated[f] = "empty")
        => /\ pass.results[k].action = "error"
           /\ pass.results[k].detail \in ContentFailureErrors
           /\ ~EngineCalled
           /\ sheet[pass.results[k].row].EmailStatus = LeadOf(pass.results[k]).EmailStatus

\* no collaborator has failed in the pass: the leads were read and the
\* content generator gave text whenever it was called
NoCollaboratorFailure ==
    /\ pass.status # "error"
    /\ \A k \in DOMAIN pass.results : ~ContentFailed(pass.results[k])

\* should_process_lead selects no lead of the sheet
NoLeadSelected == \A p \in DOMAIN sheet : ~should_process_lead(sheet[p])[1]

\* C27: with no new inbound message and no collaborator failing, the passes
\* reach a point from which no lead is selected any more.
C27_DecisionReachesNone ==
    []NoCollaboratorFailure => <>[]NoLeadSelected

------------------------------------------------------------------------------
(* Reply Monitor claims *)

\* the "Client Reply" entries of a row's history that carry the text of message m
RepliesOf(row, m) ==
    {e \in DOMAIN row.ConversationHistory :
        /\ row.ConversationHistory[e].kind = "Client Reply"
        /\ row.ConversationHistory[e].text = convert_html_to_text(get_email_body(m))}

\* C2: ingesting the same inbound message again (in the second mailbox of a
\* cycle, or in the next check_replies cycle over the unchanged mailboxes)
\* adds nothing: a lead's conversation history holds at most one entry for
\* one inbound message.
C2_IngestedOnce ==
    \A p \in DOMAIN sheet : \A k \in DOMAIN Arrival :
        Cardinality(RepliesOf(sheet[p], Arrival[k])) <= 1

C15_EveryMailboxPolled ==
    /\ mon.pc \in {"idle", "open", "loop"}
    /\ \A k \in DOMAIN mon.attempted : mon.attempted[k].box = k
    /\ Len(mon.attempted) = IF mon.pc = "loop" THEN mon.box
                            ELSE IF mon.pc = "open" THEN mon.box - 1
                            ELSE IF mon.cycles > 0 THEN Len(mailboxes) ELSE 0

\* a cycle has ended in which the first mailbox failed to connect and the
\* second one was polled
C15_Witness ==
    /\ mon.pc = "idle"
    /\ mon.cycles > 0
    /\ Len(mon.attempted) = 2
    /\ mon.attempted[1].outcome = "failed"
    /\ mon.attempted[2].outcome = "polled"

\* s is a prefix of t
IsPrefix(s, t) == Len(s) <= Len(t) /\ \A k \in DOMAIN s : t[k] = s[k]

\* C13: a lead's conversation history only grows: at every step the history
\* cell of every row before the step is a prefix of the cell after it, so no
\* earlier entry is replaced, edited or removed.
C13_HistoryOnlyGrows ==
    [][\A p \in DOMAIN sheet :
          IsPrefix(sheet[p].ConversationHistory, sheet'[p].ConversationHistory)]_vars

\* the message of the model with Message-ID id
MessageById(id) ==
    CHOOSE m \in {Arrival[k] : k \in DOMAIN Arrival} \cup {CcReply} : m.id = id

\* the message has a text part (plain or HTML) that is not empty
HasText(m) ==
    \E k \in DOMAIN m.body.parts :
        /\ m.body.parts[k].type \in {"text/plain", "text/html"}
        /\ m.body.parts[k].payload # ""

\* the addresses in the From, To and Cc headers of a message
Addresses(m) ==
    {Lower(m.from.addr)} \cup {Lower(m.to[k].addr) : k \in DOMAIN m.to}
        \cup {Lower(m.cc[k].addr) : k \in DOMAIN m.cc}

\* the rows of the leads among the participants of a message
Tracked(m) == {p \in DOMAIN sheet : Lower(sheet[p].Email) \in Addresses(m)}

\* the message the loop of _check_single_inbox is about to take
Scanned == mailboxes[mon.box][mon.pos]

\* a step of the loop over the messages
ScanStep == mon.pc = "loop" /\ mon.pos >= 1 /\ mon' # mon

\* C30: a reply recorded from a message that has a non-empty text part (plain
\* text, or HTML only) leaves the lead with a non-empty last_message.
C30_BodyNeverEmpty ==
    (mon.last.kind = "update" /\ mon.last.cells >= 1
        /\ HasText(MessageById(mon.last.message)))
    => sheet[mon.last.row].LastMessage # ""

\* C25: within one poll of one mailbox a conversation thread causes at most
\* one lead update: no update is made for a message whose thread already
\* caused an update in this poll.
C25_OneUpdatePerThread ==
    [][(ScanStep /\ mon'.last.kind = "update")
          => ThreadRoot(Scanned) \notin mon.updated_threads]_vars

\* C29: a message none of whose From, To and Cc addresses is a tracked lead
\* is ignored: the step that takes it changes no lead record, and the loop
\* goes on with the next message.
C29_UntrackedIgnored ==
    [][(ScanStep /\ Tracked(Scanned) = {})
          => (sheet' = sheet /\ mon'.pc = "loop" /\ mon'.pos = mon.pos - 1)]_vars

\* a stranger's message was taken and ignored, and a message is still to come
C29_Witness ==
    /\ mon.pc = "loop"
    /\ mon.pos >= 1
    /\ mon.pos < Len(mailboxes[mon.box])
    /\ mailboxes[mon.box][mon.pos + 1] = Stranger
    /\ mon.last.kind = "none"
    /\ mon.faults = 0

\* C26: after the monitor recorded a reply for a lead whose status was Sent
\* or Active, the decision of the next Orchestrator pass for that lead is
\* SendReply: should_process_lead selects it and the reply handler is called.
C26_RecordedReplyAnswered ==
    (mon.last.kind = "update" /\ mon.last.cells = Len(PayloadOrder)
        /\ mon.last.before.EmailStatus \in {"Sent", "Active"})
    => /\ should_process_lead(sheet[mon.last.row])[1]
       /\ Handler(sheet[mon.last.row]) = "process_client_reply"

\* the messages of a mailbox that belong to the conversation of m, by date
ConversationOf(box, m) ==
    SortByDate(SelectSeq(box, LAMBDA x : ThreadRoot(x) = ThreadRoot(m)))

\* the address that sent the most recent message of the conversation of m
LatestSender(box, m) ==
    Lower(ConversationOf(box, m)[Len(ConversationOf(box, m))].from.addr)

\* C24: when the loop takes a message of a thread that involves a tracked
\* lead (the message fetched, its thread key not yet processed, the record
\* store working), a lead is updated if and only if it is a participant and
\* the most recent message of the thread was sent from its address; if the
\* agency or anyone else has the last word, no lead is modified.
C24_UpdateIffLatestIsLead ==
    [][(/\ ScanStep
        /\ mon'.faults = mon.faults
        /\ Scanned.id \notin mon.processed_threads
        /\ Scanned.id \in mon'.processed_threads
        /\ Tracked(Scanned) # {})
       => \A p \in DOMAIN sheet :
             sheet'[p] # sheet[p]
                <=> (p \in Tracked(Scanned)
                     /\ Lower(sheet[p].Email) = LatestSender(mailboxes[mon.box], Scanned))]_vars

\* the status changes the core may make
AllowedTransitions ==
    {<<"", "Sent">>, <<"New", "Sent">>, <<"Sent", "Replied">>,
     <<"Replied", "Active">>, <<"Sent", "Active">>}
        \cup {<<s, "Failed">> : s \in Statuses \ {"Active", "Failed"}}
        \cup {<<"Failed", s>> : s \in Statuses \ {"New", "", "Failed"}}

CaseOnly(a, b) == a # b /\ {a, b} = {"Alice@X.co", "alice@x.co"}

\* the rows whose address is, letter case aside, among the From, To and Cc
\* addresses of a message
RowsAmong(m) ==
    {p \in DOMAIN sheet :
        \E x \in {m.from.addr} \cup {m.to[k].addr : k \in DOMAIN m.to}
                    \cup {m.cc[k].addr : k \in DOMAIN m.cc} :
            x = sheet[p].Email \/ CaseOnly(x, sheet[p].Email)}

\* C31: a message whose sender address differs from a lead's stored address
\* in letter case only is attributed to that lead: taken by the loop (alone
\* in its mailbox, no other lead among its participants, fetched, the record
\* store working) it is matched against the lead addresses and the row found
\* for the update is that lead's.
C31_CaseInsensitiveIdentity ==
    [][(/\ ScanStep
        /\ mon'.faults = mon.faults
        /\ Len(mailboxes[mon.box]) = 1
        /\ Cardinality(RowsAmong(Scanned)) = 1
        /\ Scanned.id \notin mon.processed_threads
        /\ \E p \in DOMAIN sheet : CaseOnly(Scanned.from.addr, sheet[p].Email))
       => (/\ mon'.last.kind = "update"
           /\ CaseOnly(Scanned.from.addr, sheet[mon'.last.row].Email)
           /\ sheet'[mon'.last.row].LastSender = "Client")]_vars

\* a reply was recorded in full for a lead whose stored address is written
\* in other letter case than the sender's
C31_Witness ==
    /\ mon.last.kind = "update"
    /\ mon.last.cells = Len(PayloadOrder)
    /\ CaseOnly(MessageById(mon.last.message).from.addr, sheet[mon.last.row].Email)
    /\ sheet[mon.last.row].LastSender = "Client"

\* C32: an update goes to the first row, in scan order, that has the
\* sender's address; every other row is left as it was.
C32_FirstMatchWins ==
    [][(ScanStep /\ mon'.last.kind = "update")
          => LET r == mon'.last.row
             IN /\ \A q \in DOMAIN sheet :
                      Lower(sheet[q].Email) = Lower(sheet[r].Email) => r <= q
                /\ \A q \in DOMAIN sheet : q # r => sheet'[q] = sheet[q]]_vars

\* two rows have the sender's address; the first one holds the reply, the
\* second one does not
C32_Witness ==
    /\ mon.last.kind = "update"
    /\ mon.last.row = 1
    /\ Len(sheet) = 2
    /\ Lower(sheet[2].Email) = Lower(sheet[1].Email)
    /\ sheet[1].LastMessage = "Tell me more"
    /\ sheet[2].LastMessage = ""
    /\ sheet[2].EmailStatus = "New"

\* no reply has been recorded in any row
Untouched ==
    \A p \in DOMAIN sheet : sheet[p].LastMessage = "" /\ sheet[p].LastSender # "Client"

\* a run of the monitor is over and nothing failed in it
RunDone == mon.pc = "idle" /\ mon.cycles >= 1 /\ mon.faults = 0

\* a run is over, nothing has failed since and every record is as it was
RanUntouched ==
    /\ Untouched
    /\ mon.faults = 0
    /\ mon.cycles >= 2 \/ (mon.cycles = 1 /\ mon.pc = "idle")

\* C33: two runs of the monitor over the same mailboxes and the same lead
\* list leave the same lead records: when a run without failures has left
\* every record as it was, the next run over the same mailboxes leaves
\* every record as it was, too.
C33_AttributionDeterministic ==
    [][RanUntouched => Untouched']_vars

\* C39: after a run without failures over a mailbox that holds the reply of
\* a lead of the list, that reply is recorded, whatever the other rows of
\* the list hold.
C39_EmptyEmailRowTolerated ==
    (/\ RunDone
     /\ mailboxes[1] = <<Reply1>>
     /\ \E p \in DOMAIN sheet : Lower(sheet[p].Email) = Lower(Reply1.from.addr))
    => \E p \in DOMAIN sheet :
          /\ Lower(sheet[p].Email) = Lower(Reply1.from.addr)
          /\ sheet[p].LastMessage = "Tell me more"

\* the columns of the update payload
PayloadFields == {PayloadOrder[k] : k \in DOMAIN PayloadOrder}

\* C40: a step of the monitor writes nothing but last_message, last_sender,
\* status and conversation_history of the row it updates: every other cell
\* of that row and every cell of every other row keeps its value.
C40_UpdateFrame ==
    [][mon' # mon =>
          /\ DOMAIN sheet' = DOMAIN sheet
          /\ \A p \in DOMAIN sheet :
                \A f \in DOMAIN sheet[p] \ PayloadFields : sheet'[p][f] = sheet[p][f]
          /\ IF mon'.last.kind = "update"
             THEN \A p \in DOMAIN sheet : p # mon'.last.row => sheet'[p] = sheet[p]
             ELSE sheet' = sheet]_vars

\* the first lead's reply was recorded in full; its address, subject and
\* company background and the whole row of the second lead are as before
C40_Witness ==
    /\ mon.last.kind = "update"
    /\ mon.last.cells = Len(PayloadOrder)
    /\ mon.last.row = 1
    /\ sheet[1].LastMessage # mon.last.before.LastMessage
    /\ sheet[1].Email = mon.last.before.Email
    /\ sheet[1].ColdEmailSubject = mon.last.before.ColdEmailSubject
    /\ sheet[1].CompanyBackground = mon.last.before.CompanyBackground
    /\ sheet[2] = MonitorRow(2, "Sent")

------------------------------------------------------------------------------
(* Orchestrator and Reply Monitor side by side *)

\* what the monitor records of a reply in a row
ReplyCells(row) ==
    <<row.LastMessage, row.LastSender, row.EmailStatus, row.ConversationHistory>>

\* C22: no step of an Orchestrator pass changes the last message, the last
\* sender, the status or the conversation history of a row: what the monitor
\* recorded after the pass read its leads is not overwritten by the pass.
C22_ReplyNotOverwritten ==
    [][pass' # pass => \A p \in DOMAIN sheet : ReplyCells(sheet'[p]) = ReplyCells(sheet[p])]_vars

\* the pass read the first lead before the monitor recorded its reply, then
\* handled it from that snapshot and wrote to its row; the reply is there
C22_Witness ==
    /\ pass.pc = "loop"
    /\ pass.i = 2
    /\ pass.leads[1].LastMessage = ""
    /\ pass.results[1].handler = "process_new_lead"
    /\ sheet[1].CompanyBackground = "description"
    /\ sheet[1].LastMessage = "Tell me more"
    /\ sheet[1].LastSender = "Client"

------------------------------------------------------------------------------
(* HTML conversion claims *)

\* C23: the text _convert_html_to_text returns for a paragraph with an
\* anchor contains the anchor's href as a run of consecutive characters.
C23_LinkTargetVisible ==
    conv.pc \in {"returned", "failed"} => Within(conv.doc.href, conv.text)

====
